---- MODULE Spec2Model ----
(***************************************************************************)
(* MAITRI-NEXT front end: the shared jotai cells (store.ts), the           *)
(* Dashboard's WebSocket subscription and the ChatPanel's per-message      *)
(* fetch, as one state machine.                                            *)
(*                                                                         *)
(* JavaScript values are tagged records, so that values of different       *)
(* JavaScript types can be compared: [type |-> "null"], [type |->          *)
(* "number", num |-> n], [type |-> "object", obj |-> <key -> value>], ...   *)
(***************************************************************************)
EXTENDS Integers, Sequences, FiniteSets, TLC

(* ---------------------------------------------------------------- bounds *)

\* Mounts of the Dashboard in one page session (2 = React StrictMode's
\* mount, unmount, mount).
MaxMounts == 2

\* Non-blank chat sends in one page session.
MaxSends == 2

\* Ticks of the animation timer in one mount of MindMap3D.
MaxTicks == 2

(* ----------------------------------------------------- JavaScript values *)

Undefined == [type |-> "undefined"]
Null == [type |-> "null"]
JsNumber(n) == [type |-> "number", num |-> n]
JsBoolean(b) == [type |-> "boolean", bool |-> b]
JsString(s) == [type |-> "string", str |-> s]
JsObject(o) == [type |-> "object", obj |-> o]

\* ToBoolean, as `if (x)` applies it: undefined, null, 0, false and "" are
\* falsy; every object, the empty one included, is truthy.
Truthy(v) ==
    CASE v.type = "undefined" -> FALSE
      [] v.type = "null" -> FALSE
      [] v.type = "number" -> v.num # 0
      [] v.type = "boolean" -> v.bool
      [] v.type = "string" -> v.str # ""
      [] OTHER -> TRUE

\* data.key. The caller has excluded null (a TypeError); a number, string
\* or boolean has no such property, an object has it when the key is there.
GetProp(data, key) ==
    IF data.type = "object" /\ key \in DOMAIN data.obj
    THEN data.obj[key]
    ELSE Undefined

\* A text that is to be parsed as JSON: either it is not JSON at all, or it
\* is the JSON text of `value`.
NotJson == [wellFormed |-> FALSE, value |-> Undefined]
JsonText(v) == [wellFormed |-> TRUE, value |-> v]

(* ---------------------------------------------------------- store.ts cells *)

\* co2_level is 0.04 in the source; it is kept in hundredths here.
DefaultVitals ==
    JsObject([heart_rate |-> 72, sleep_quality |-> 88, stress_level |-> 25,
              o2_level |-> 21, co2_level |-> 4, temperature |-> 22])

EmptyMap == JsObject([k \in {} |-> Null])

(* ------------------------------------------------- the WebSocket's inputs *)

VitalsA ==
    JsObject([heart_rate |-> 90, sleep_quality |-> 60, stress_level |-> 70,
              o2_level |-> 20, co2_level |-> 6, temperature |-> 24])
VitalsB ==
    JsObject([heart_rate |-> 55, sleep_quality |-> 95, stress_level |-> 10,
              o2_level |-> 21, co2_level |-> 4, temperature |-> 21])

StatesA ==
    JsObject([Vitals |-> [status |-> "Active", last_action |-> "scan"],
              Sleep |-> [status |-> "Processing", last_action |-> "log"]])
StatesB ==
    JsObject([Alert |-> [status |-> "Alert", last_action |-> "raise"]])

Falsy == {Null, JsNumber(0), JsBoolean(FALSE), JsString("")}

\* What a message may hold under `vitals` and under `agent_states`.
VitalsFieldValues == Falsy \cup {VitalsA, VitalsB}
AgentStatesFieldValues == Falsy \cup {EmptyMap, StatesA, StatesB}

\* The JSON objects a message may be: each of the two fields there or not.
MessageObjects ==
    {JsObject([k \in {} |-> Null])}
    \cup {JsObject([vitals |-> v]) : v \in VitalsFieldValues}
    \cup {JsObject([agent_states |-> s]) : s \in AgentStatesFieldValues}
    \cup {JsObject([vitals |-> v, agent_states |-> s]) :
             v \in VitalsFieldValues, s \in AgentStatesFieldValues}

\* event.data: not JSON, JSON null, a JSON number, or a JSON object.
Payloads ==
    {NotJson, JsonText(Null), JsonText(JsNumber(1))}
    \cup {JsonText(o) : o \in MessageObjects}

NoEvent == [wellFormed |-> FALSE, value |-> [type |-> "none"]]

(* ------------------------------------------------------------------ state *)

VARIABLES
    vitals,            \* vitalsAtom's value
    agentStates,       \* agentStatesAtom's value
    mounted,           \* whether the Dashboard is mounted
    mounts,            \* history: how many times the Dashboard has mounted
    sockets,           \* every WebSocket constructed, in order of construction
    event,             \* the data of the last message event handled
    vitalsCarried,     \* history: `vitals` of the last message that had the field
    statesCarried,     \* history: `agent_states` of the last message that had it
    vitalsTruthy,      \* history: the last truthy `vitals` a message held
    statesTruthy,      \* history: the last truthy `agent_states` a message held
    thrown,            \* history: whether the handler has thrown on a message
    messages,          \* messagesAtom's value: the chat transcript
    input,             \* ChatPanel's input field
    requests,          \* every fetch issued, in order of issue; phase is "fetch"
                       \* (awaiting fetch), "json" (awaiting response.json()),
                       \* "failed" (fetch rejected) or "done" (json() settled)
    now,               \* the wall clock, as an index into ClockTimes
    sends,             \* history: how many non-blank sends there have been
    origin,            \* history: for each message, the send and branch it is from
    completed,         \* history: the sends in the order their requests settled
    time,              \* MindMap3D's animation clock, in thousandths
    timers,            \* every interval timer set, in order of setInterval
    hoveredAgent,      \* MindMap3D's hoveredAgent
    activeAgent,       \* activeAgentAtom's value
    lastHover          \* history: what the last mouse event left hovered

socketVars == <<mounted, mounts, sockets>>
cellVars == <<vitals, agentStates>>
feedVars ==
    <<event, vitalsCarried, statesCarried, vitalsTruthy, statesTruthy, thrown>>
chatVars == <<messages, input, requests, now, sends, origin, completed>>
mapVars == <<time, timers, hoveredAgent, activeAgent, lastHover>>
vars == <<cellVars, socketVars, feedVars, chatVars, mapVars>>

(* ------------------------------------------- MindMap3D: mount and unmount *)

\* setTime(t => t + 0.008): the step of the clock, in thousandths.
TimeStep == 8

\* setInterval(...): a running timer. `mount` (which mount set it) and
\* `fired` (how often it has fired) are history.
NewInterval(m) == [mount |-> m, active |-> TRUE, fired |-> 0]

\* MindMap3D mounts, as the m-th mount of the Dashboard it is a child of:
\* useState(null), useState(0), and the effect sets the interval timer. The
\* atom behind activeAgent is module state and is not touched.
MindMap3DMount(m) ==
    /\ hoveredAgent' = Null
    /\ time' = 0
    /\ timers' = Append(timers, NewInterval(m))
    /\ UNCHANGED <<activeAgent, lastHover>>

\* A MindMap3D whose effect returns no cleanup.
MindMap3DUnmountNoClear == UNCHANGED mapVars

\* MindMap3D unmounts: the effect's cleanup clears the timer it set. The
\* component's own state is gone; no mouse-leave event is dispatched.
MindMap3DUnmount ==
    /\ timers' = [timers EXCEPT ![Len(timers)].active = FALSE]
    /\ UNCHANGED <<time, hoveredAgent, activeAgent, lastHover>>

(* ------------------------------------- Dashboard: the socket subscription *)

\* The identities of the two setters the effect depends on. jotai hands out
\* the same setter for the same atom on every render.
setVitals == "setVitals"
setAgentStates == "setAgentStates"
EffectDeps == <<setVitals, setAgentStates>>

\* new WebSocket(url): a socket in CONNECTING. `mount` (which mount's effect
\* constructed it) and `closeCalled` are history.
NewWebSocket(m) ==
    [readyState |-> "CONNECTING", mount |-> m, closeCalled |-> FALSE]

\* socket.close(): CONNECTING and OPEN go to CLOSING, otherwise nothing.
Close(sock) ==
    IF sock.readyState \in {"CONNECTING", "OPEN"}
    THEN [sock EXCEPT !.readyState = "CLOSING", !.closeCalled = TRUE]
    ELSE [sock EXCEPT !.closeCalled = TRUE]

\* The effect's body runs once when the Dashboard mounts.
DashboardMount ==
    /\ ~mounted
    /\ mounts < MaxMounts
    /\ mounted' = TRUE
    /\ mounts' = mounts + 1
    /\ sockets' = Append(sockets, NewWebSocket(mounts + 1))
    /\ input' = ""
    /\ MindMap3DMount(mounts + 1)
    /\ UNCHANGED <<cellVars, feedVars>>
    /\ UNCHANGED <<messages, requests, now, sends, origin, completed>>

\* A Dashboard whose effect returns no cleanup.
DashboardUnmountNoCleanup ==
    /\ mounted
    /\ mounted' = FALSE
    /\ MindMap3DUnmount
    /\ UNCHANGED <<sockets, mounts, cellVars, feedVars, chatVars>>

\* The effect's cleanup: close() on the socket the effect's run constructed.
DashboardUnmount ==
    /\ mounted
    /\ mounted' = FALSE
    /\ sockets' = [sockets EXCEPT ![Len(sockets)] = Close(@)]
    /\ MindMap3DUnmount
    /\ UNCHANGED <<mounts, cellVars, feedVars, chatVars>>

\* An effect with no dependency array: it runs again on every render.
DashboardRenderNoDeps ==
    /\ mounted
    /\ sockets' = Append([sockets EXCEPT ![Len(sockets)] = Close(@)],
                         NewWebSocket(mounts))
    /\ UNCHANGED <<mounted, mounts, cellVars, feedVars, chatVars, mapVars>>

\* A re-render compares the effect's dependencies with those of the last
\* run; the effect runs again (cleanup, then body) only if one differs.
DashboardRender ==
    /\ mounted
    /\ IF <<setVitals, setAgentStates>> # EffectDeps
       THEN sockets' = Append([sockets EXCEPT ![Len(sockets)] = Close(@)],
                              NewWebSocket(mounts))
       ELSE UNCHANGED sockets
    /\ UNCHANGED <<mounted, mounts, cellVars, feedVars, chatVars, mapVars>>

\* The connection is established: onopen only logs.
SocketOpen(i) ==
    /\ sockets[i].readyState = "CONNECTING"
    /\ sockets' = [sockets EXCEPT ![i].readyState = "OPEN"]
    /\ UNCHANGED <<mounted, mounts, cellVars, feedVars, chatVars, mapVars>>

\* The connection fails, is closed by the server, or finishes closing:
\* onclose only logs, and nothing constructs another socket.
SocketClosed(i) ==
    /\ sockets[i].readyState # "CLOSED"
    /\ sockets' = [sockets EXCEPT ![i].readyState = "CLOSED"]
    /\ UNCHANGED <<mounted, mounts, cellVars, feedVars, chatVars, mapVars>>

\* {...a, ...b} on two objects.
Spread(a, b) ==
    JsObject([k \in DOMAIN a.obj \cup DOMAIN b.obj |->
                 IF k \in DOMAIN b.obj THEN b.obj[k] ELSE a.obj[k]])

\* A handler that defaults a missing agent_states to {}.
onmessageDefaulting(ev) ==
    IF ~ev.wellFormed \/ ev.value.type = "null"
    THEN [vitals |-> vitals, agentStates |-> agentStates]
    ELSE [vitals |-> IF Truthy(GetProp(ev.value, "vitals"))
                     THEN GetProp(ev.value, "vitals")
                     ELSE vitals,
          agentStates |-> IF Truthy(GetProp(ev.value, "agent_states"))
                          THEN GetProp(ev.value, "agent_states")
                          ELSE EmptyMap]

\* A handler that merges the received agent_states into the map.
onmessageMerging(ev) ==
    IF ~ev.wellFormed \/ ev.value.type = "null"
    THEN [vitals |-> vitals, agentStates |-> agentStates]
    ELSE [vitals |-> IF Truthy(GetProp(ev.value, "vitals"))
                     THEN GetProp(ev.value, "vitals")
                     ELSE vitals,
          agentStates |-> IF Truthy(GetProp(ev.value, "agent_states"))
                          THEN Spread(agentStates, GetProp(ev.value, "agent_states"))
                          ELSE agentStates]

\* A handler that tests the fields for presence (`"vitals" in data`).
onmessagePresence(ev) ==
    IF ~ev.wellFormed \/ ev.value.type # "object"
    THEN [vitals |-> vitals, agentStates |-> agentStates]
    ELSE [vitals |-> IF "vitals" \in DOMAIN ev.value.obj
                     THEN ev.value.obj["vitals"]
                     ELSE vitals,
          agentStates |-> IF "agent_states" \in DOMAIN ev.value.obj
                          THEN ev.value.obj["agent_states"]
                          ELSE agentStates]

\* A handler that catches its own failure and resets the two cells.
onmessageResetOnThrow(ev) ==
    IF ~ev.wellFormed \/ ev.value.type = "null"
    THEN [vitals |-> DefaultVitals, agentStates |-> EmptyMap]
    ELSE [vitals |-> IF Truthy(GetProp(ev.value, "vitals"))
                     THEN GetProp(ev.value, "vitals")
                     ELSE vitals,
          agentStates |-> IF Truthy(GetProp(ev.value, "agent_states"))
                          THEN GetProp(ev.value, "agent_states")
                          ELSE agentStates]

\* A handler that takes an agent_states without keys for no data.
onmessageNonEmpty(ev) ==
    IF ~ev.wellFormed \/ ev.value.type = "null"
    THEN [vitals |-> vitals, agentStates |-> agentStates]
    ELSE [vitals |-> IF Truthy(GetProp(ev.value, "vitals"))
                     THEN GetProp(ev.value, "vitals")
                     ELSE vitals,
          agentStates |-> IF /\ Truthy(GetProp(ev.value, "agent_states"))
                             /\ GetProp(ev.value, "agent_states") # EmptyMap
                          THEN GetProp(ev.value, "agent_states")
                          ELSE agentStates]

\* JSON.parse(event.data), then the two guarded setter calls. The result is
\* the two cells after the handler; a throw (SyntaxError from the parse,
\* TypeError from reading a property of null) leaves them as they were.
onmessage(ev) ==
    IF ~ev.wellFormed
    THEN [vitals |-> vitals, agentStates |-> agentStates]
    ELSE LET data == ev.value IN
         IF data.type = "null"
         THEN [vitals |-> vitals, agentStates |-> agentStates]
         ELSE [vitals |-> IF Truthy(GetProp(data, "vitals"))
                          THEN GetProp(data, "vitals")
                          ELSE vitals,
               agentStates |-> IF Truthy(GetProp(data, "agent_states"))
                               THEN GetProp(data, "agent_states")
                               ELSE agentStates]

\* Whether the handler throws on the message: JSON.parse throws on a text
\* that is not JSON, and data.vitals throws when data is null.
Throws(ev) == ~ev.wellFormed \/ ev.value.type = "null"

\* Whether the message is a JSON object that has the key.
\* (HasField and Field read the message for the history variables and for
\* the properties; the handler does not use them.)
HasField(ev, key) ==
    ev.wellFormed /\ ev.value.type = "object" /\ key \in DOMAIN ev.value.obj

Field(ev, key) == IF HasField(ev, key) THEN ev.value.obj[key] ELSE Undefined

\* A message event is dispatched on an OPEN socket only.
SocketMessage(i, ev) ==
    /\ sockets[i].readyState = "OPEN"
    /\ event' = ev
    /\ vitals' = onmessage(ev).vitals
    /\ agentStates' = onmessage(ev).agentStates
    /\ vitalsCarried' =
           IF HasField(ev, "vitals") THEN Field(ev, "vitals") ELSE vitalsCarried
    /\ statesCarried' =
           IF HasField(ev, "agent_states")
           THEN Field(ev, "agent_states") ELSE statesCarried
    /\ vitalsTruthy' =
           IF Truthy(Field(ev, "vitals")) THEN Field(ev, "vitals") ELSE vitalsTruthy
    /\ statesTruthy' =
           IF Truthy(Field(ev, "agent_states"))
           THEN Field(ev, "agent_states") ELSE statesTruthy
    /\ thrown' = (thrown \/ Throws(ev))
    /\ UNCHANGED <<socketVars, chatVars, mapVars>>

(* ------------------------------------------------------------- ChatPanel *)

\* What the user may have typed: nothing, blanks only, a word, a padded word.
Inputs == {"", "  ", "hi", " yo "}

\* String.prototype.trim on the inputs above.
Trim(s) ==
    CASE s = "  " -> ""
      [] s = " yo " -> "yo"
      [] OTHER -> s

\* encodeURIComponent on the inputs above: a blank becomes %20.
EncodeURIComponent(s) ==
    CASE s = "  " -> "%20%20"
      [] s = " yo " -> "%20yo%20"
      [] OTHER -> s

QueryUrl(currentInput) ==
    "http://localhost:8000/query/" \o EncodeURIComponent(currentInput)

\* new Date().toLocaleTimeString() at the successive seconds of the clock.
ClockTimes == <<"10:00:00 AM", "10:00:01 AM">>
ToLocaleTimeString(t) == ClockTimes[t]

FallbackText ==
    "I'm having trouble connecting to the orchestration core. Please check my status."

\* The bodies a response may have: not JSON, JSON null, a JSON object with
\* no `response` key, with a string `response`, with a non-string `response`.
Bodies ==
    { NotJson,
      JsonText(Null),
      JsonText(JsObject([detail |-> JsString("Not Found")])),
      JsonText(JsObject([response |-> JsString("Vitals nominal")])),
      JsonText(JsObject([response |-> JsNumber(7)])) }

NoBody == [wellFormed |-> FALSE, value |-> [type |-> "none"]]

userMsg == [role |-> "user", text |-> JsString(input),
            timestamp |-> ToLocaleTimeString(now)]

\* An aiMsg that reads a field the response does not have.
aiMsgWrongField(data) ==
    [role |-> "ai", text |-> GetProp(data, "text"),
     timestamp |-> ToLocaleTimeString(now)]

aiMsg(data) ==
    [role |-> "ai", text |-> GetProp(data, "response"),
     timestamp |-> ToLocaleTimeString(now)]

errorMsg ==
    [role |-> "ai", text |-> JsString(FallbackText),
     timestamp |-> ToLocaleTimeString(now)]

\* A setMessages that puts the new message first.
PostFirst(msg, send, by) ==
    /\ messages' = <<msg>> \o messages
    /\ origin' = <<[send |-> send, by |-> by]>> \o origin

\* setMessages(prev => [...prev, msg]); `send` and `by` are history.
Post(msg, send, by) ==
    /\ messages' = Append(messages, msg)
    /\ origin' = Append(origin, [send |-> send, by |-> by])

\* onChange: the input field takes what the user typed.
SetInput(s) ==
    /\ mounted
    /\ input' = s
    /\ UNCHANGED <<mapVars, cellVars, socketVars, feedVars>>
    /\ UNCHANGED <<messages, requests, now, sends, origin, completed>>

\* handleSend with a blank input returns at once.
HandleSendBlank ==
    /\ mounted
    /\ Trim(input) = ""
    /\ UNCHANGED vars

\* A handleSend that refuses to send while a request is pending.
HandleSendSerialised ==
    /\ mounted
    /\ Trim(input) # ""
    /\ sends < MaxSends
    /\ \A i \in 1..Len(requests) : requests[i].phase \in {"failed", "done"}
    /\ Post(userMsg, sends + 1, "send")
    /\ input' = ""
    /\ requests' = Append(requests,
           [currentInput |-> input, url |-> QueryUrl(input),
            phase |-> "fetch", body |-> NoBody])
    /\ sends' = sends + 1
    /\ UNCHANGED <<mapVars, cellVars, socketVars, feedVars, now, completed>>

\* A handleSend that reads the input field for the request after clearing it.
HandleSendLateCapture ==
    /\ mounted
    /\ Trim(input) # ""
    /\ sends < MaxSends
    /\ Post(userMsg, sends + 1, "send")
    /\ input' = ""
    /\ requests' = Append(requests,
           [currentInput |-> "", url |-> QueryUrl(""),
            phase |-> "fetch", body |-> NoBody])
    /\ sends' = sends + 1
    /\ UNCHANGED <<mapVars, cellVars, socketVars, feedVars, now, completed>>

\* A handleSend that tests the input without trimming it.
HandleSendNoTrim ==
    /\ mounted
    /\ input # ""
    /\ sends < MaxSends
    /\ Post(userMsg, sends + 1, "send")
    /\ input' = ""
    /\ requests' = Append(requests,
           [currentInput |-> input, url |-> QueryUrl(input),
            phase |-> "fetch", body |-> NoBody])
    /\ sends' = sends + 1
    /\ UNCHANGED <<mapVars, cellVars, socketVars, feedVars, now, completed>>

\* handleSend up to its first await: the user message is appended, the
\* input field cleared and fetch called with the text the field held.
HandleSend ==
    /\ mounted
    /\ Trim(input) # ""
    /\ sends < MaxSends
    /\ Post(userMsg, sends + 1, "send")
    /\ input' = ""
    /\ requests' = Append(requests,
           [currentInput |-> input, url |-> QueryUrl(input),
            phase |-> "fetch", body |-> NoBody])
    /\ sends' = sends + 1
    /\ UNCHANGED <<mapVars, cellVars, socketVars, feedVars, now, completed>>

\* A catch branch that calls fetch again instead of giving up.
FetchRejectedRetry(i) ==
    /\ requests[i].phase = "fetch"
    /\ requests' = Append([requests EXCEPT ![i].phase = "failed"],
           [currentInput |-> requests[i].currentInput, url |-> requests[i].url,
            phase |-> "fetch", body |-> NoBody])
    /\ completed' = Append(completed, i)
    /\ UNCHANGED <<mapVars, cellVars, socketVars, feedVars>>
    /\ UNCHANGED <<messages, input, now, sends, origin>>

\* A catch branch that only logs.
FetchRejectedSilent(i) ==
    /\ requests[i].phase = "fetch"
    /\ requests' = [requests EXCEPT ![i].phase = "failed"]
    /\ completed' = Append(completed, i)
    /\ UNCHANGED <<mapVars, cellVars, socketVars, feedVars>>
    /\ UNCHANGED <<messages, input, now, sends, origin>>

\* The fetch promise rejects (the request failed): the catch branch appends
\* the fallback message.
FetchRejected(i) ==
    /\ requests[i].phase = "fetch"
    /\ Post(errorMsg, i, "catch")
    /\ requests' = [requests EXCEPT ![i].phase = "failed"]
    /\ completed' = Append(completed, i)
    /\ UNCHANGED <<mapVars, cellVars, socketVars, feedVars, input, now, sends>>

\* The fetch promise resolves with a response, of whatever HTTP status:
\* handleSend goes on to await response.json().
FetchResolved(i) ==
    /\ requests[i].phase = "fetch"
    /\ requests' = [requests EXCEPT ![i].phase = "json"]
    /\ UNCHANGED <<mapVars, cellVars, socketVars, feedVars>>
    /\ UNCHANGED <<messages, input, now, sends, origin, completed>>

\* response.json() settles. It rejects when the body is not JSON; data.response
\* throws when data is null; both end in the catch branch. Otherwise the
\* try branch appends aiMsg, whatever data.response is.
JsonSettled(i, body) ==
    /\ requests[i].phase = "json"
    /\ IF ~body.wellFormed
       THEN Post(errorMsg, i, "catch")
       ELSE LET data == body.value IN
            IF data.type = "null"
            THEN Post(errorMsg, i, "catch")
            ELSE Post(aiMsg(data), i, "try")
    /\ requests' = [requests EXCEPT ![i].phase = "done", ![i].body = body]
    /\ completed' = Append(completed, i)
    /\ UNCHANGED <<mapVars, cellVars, socketVars, feedVars, input, now, sends>>

\* A second of wall-clock time passes.
Tick ==
    /\ now < Len(ClockTimes)
    /\ now' = now + 1
    /\ UNCHANGED <<mapVars, cellVars, socketVars, feedVars>>
    /\ UNCHANGED <<messages, input, requests, sends, origin, completed>>

(* ------------------------------------------------------------- MindMap3D *)

AGENTS ==
    << [name |-> "Orchestrator", color |-> "#4ecdc4", size |-> 64, ring |-> 0, angle |-> 0, desc |-> "Command Hub"],
       [name |-> "Vitals", color |-> "#ff6b6b", size |-> 48, ring |-> 1, angle |-> 0, desc |-> "Biometrics"],
       [name |-> "Psyche", color |-> "#aa6dc9", size |-> 48, ring |-> 1, angle |-> 72, desc |-> "Mental State"],
       [name |-> "Exercise", color |-> "#feca57", size |-> 48, ring |-> 1, angle |-> 144, desc |-> "Fitness"],
       [name |-> "Sleep", color |-> "#54a0ff", size |-> 48, ring |-> 1, angle |-> 216, desc |-> "Rest Cycles"],
       [name |-> "Nutrition", color |-> "#5f27cd", size |-> 48, ring |-> 1, angle |-> 288, desc |-> "Sustenance"],
       [name |-> "Mission", color |-> "#ff9f43", size |-> 44, ring |-> 2, angle |-> 0, desc |-> "Operations"],
       [name |-> "Comms", color |-> "#ee5253", size |-> 44, ring |-> 2, angle |-> 51, desc |-> "Earth Link"],
       [name |-> "Enviro", color |-> "#00d2d3", size |-> 44, ring |-> 2, angle |-> 102, desc |-> "Habitat"],
       [name |-> "Entertain", color |-> "#ff6b6b", size |-> 44, ring |-> 2, angle |-> 153, desc |-> "Recreation"],
       [name |-> "Training", color |-> "#4ecdc4", size |-> 44, ring |-> 2, angle |-> 204, desc |-> "Skills"],
       [name |-> "Alert", color |-> "#ff4757", size |-> 44, ring |-> 2, angle |-> 255, desc |-> "Alerts"],
       [name |-> "Knowledge", color |-> "#7bed9f", size |-> 44, ring |-> 2, angle |-> 306, desc |-> "AI Corpus"] >>

\* RING_RADII[ring], the source's index being 0-based.
RING_RADII == <<0, 110, 210>>
RingRadius(ring) == RING_RADII[ring + 1]

\* AGENTS.filter(a => a.ring === ring) and AGENTS.filter(a => a.ring > 0).
RingAgents(ring) == SelectSeq(AGENTS, LAMBDA a : a.ring = ring)
OrbitingAgents == SelectSeq(AGENTS, LAMBDA a : a.ring > 0)

\* seq.indexOf(x): the 0-based place of the first x, -1 when there is none.
IndexOf(seq, x) ==
    IF \E k \in 1..Len(seq) : seq[k] = x
    THEN (CHOOSE k \in 1..Len(seq) :
              seq[k] = x /\ \A l \in 1..(k - 1) : seq[l] # x) - 1
    ELSE -1

\* A node speed that uses the node's place among all orbiting agents.
NodeSpeedByListIndex(agent) ==
    LET i == IndexOf(OrbitingAgents, agent)
    IN  IF agent.ring = 1 THEN 30 + i * 7 ELSE 18 + i * 4

\* speed, in hundredths: 0.3 + idx * 0.07 on ring 1, 0.18 + idx * 0.04 on
\* ring 2, idx being the agent's place within its ring.
NodeSpeed(agent) ==
    LET idx == IndexOf(RingAgents(agent.ring), agent)
    IN  IF agent.ring = 1 THEN 30 + idx * 7 ELSE 18 + idx * 4

\* agentStates[agent.name]: undefined when the map has no such key.
StateOf(name) ==
    IF agentStates.type = "object" /\ name \in DOMAIN agentStates.obj
    THEN agentStates.obj[name]
    ELSE Undefined

\* state?.status === 'Processing' and state?.status === 'Alert'.
isProcessing(name) ==
    StateOf(name) # Undefined /\ StateOf(name).status = "Processing"
isAlert(name) ==
    StateOf(name) # Undefined /\ StateOf(name).status = "Alert"

\* A pulse ring for alerts only.
PulseRingAlertOnly(name) == isAlert(name)

\* {(isProcessing || isAlert) && <pulse ring>}.
PulseRing(name) == isProcessing(name) \/ isAlert(name)

\* {state && <status line>} of the tooltip.
TooltipStatusLine(name) == StateOf(name) # Undefined

\* The node of one orbiting agent. Its place is
\*   (cx + cos(liveAngle) * radius, cy + sin(liveAngle) * radius),
\* the point at distance `radius` from the centre (cx, cy) in direction
\* liveAngle = agent.angle * pi / 180 + time * speed; the direction is kept
\* as its two terms: `degrees`, and `turn` = time * speed in 1/100000 rad.
AgentNode(agent) ==
    [name |-> agent.name,
     radius |-> RingRadius(agent.ring),
     degrees |-> agent.angle,
     turn |-> time * NodeSpeed(agent),
     isHov |-> hoveredAgent = JsString(agent.name),
     pulseRing |-> PulseRing(agent.name),
     tooltip |-> hoveredAgent = JsString(agent.name),
     statusLine |-> /\ hoveredAgent = JsString(agent.name)
                    /\ TooltipStatusLine(agent.name)]

\* AGENTS.filter(a => a.ring > 0).map(...): the nodes that are rendered.
AgentNodes == [k \in 1..Len(OrbitingAgents) |-> AgentNode(OrbitingAgents[k])]

\* The centre node: the astronaut, at (cx, cy), whatever the clock.
CenterNode == [label |-> "ASTRONAUT", radius |-> 0]

\* "Live Agentic Mesh - {AGENTS.length} Nodes Active".
NodesActive == Len(AGENTS)

\* A timer callback that restarts the clock.
TimerTickReset(i) ==
    /\ timers[i].active
    /\ timers[i].fired < MaxTicks
    /\ timers' = [timers EXCEPT ![i].fired = @ + 1]
    /\ time' = IF mounted /\ i = Len(timers) THEN TimeStep ELSE time
    /\ UNCHANGED <<hoveredAgent, activeAgent, lastHover>>
    /\ UNCHANGED <<cellVars, socketVars, feedVars, chatVars>>

\* The interval timer fires: setTime(t => t + 0.008) on the component
\* instance that set the timer; on an instance that has unmounted the
\* update is dropped.
TimerTick(i) ==
    /\ timers[i].active
    /\ timers[i].fired < MaxTicks
    /\ timers' = [timers EXCEPT ![i].fired = @ + 1]
    /\ time' = IF mounted /\ i = Len(timers) THEN time + TimeStep ELSE time
    /\ UNCHANGED <<hoveredAgent, activeAgent, lastHover>>
    /\ UNCHANGED <<cellVars, socketVars, feedVars, chatVars>>

\* onMouseEnter of the k-th node: setHoveredAgent(name); setActiveAgent(name).
MouseEnter(k) ==
    /\ mounted
    /\ hoveredAgent' = JsString(OrbitingAgents[k].name)
    /\ activeAgent' = JsString(OrbitingAgents[k].name)
    /\ lastHover' = JsString(OrbitingAgents[k].name)
    /\ UNCHANGED <<time, timers>>
    /\ UNCHANGED <<cellVars, socketVars, feedVars, chatVars>>

\* onMouseLeave of the k-th node: setHoveredAgent(null); setActiveAgent(null).
MouseLeave(k) ==
    /\ mounted
    /\ hoveredAgent' = Null
    /\ activeAgent' = Null
    /\ lastHover' = Null
    /\ UNCHANGED <<time, timers>>
    /\ UNCHANGED <<cellVars, socketVars, feedVars, chatVars>>

(* --------------------------------------------------------- AgentActivity *)

\* Object.entries(o): the [key, value] pairs of o's own keys, one per key.
RECURSIVE EntriesOf(_, _)
EntriesOf(o, keys) ==
    IF keys = {}
    THEN <<>>
    ELSE LET k == CHOOSE x \in keys : TRUE
         IN  <<[key |-> k, value |-> o[k]]>> \o EntriesOf(o, keys \ {k})
ObjectEntries(v) == EntriesOf(v.obj, DOMAIN v.obj)

\* ({name, ...state}): the fields of state, and `name` unless state has one.
ListEntry(name, state) ==
    [f \in {"name"} \cup DOMAIN state |->
        IF f \in DOMAIN state THEN state[f] ELSE name]

\* A list that leaves out the agents that are merely active.
agentsListBusyOnly ==
    LET entries == SelectSeq(ObjectEntries(agentStates),
                             LAMBDA e : e.value.status # "Active")
    IN  [i \in 1..Len(entries) |-> ListEntry(entries[i].key, entries[i].value)]

\* Object.entries(agentStates).map(([name, state]) => ({name, ...state})).
agentsList ==
    LET entries == ObjectEntries(agentStates)
    IN  [i \in 1..Len(entries) |-> ListEntry(entries[i].key, entries[i].value)]

\* agentsList.length === 0 ? <"No Data Stream"> : <the list>.
NoDataStream == Len(agentsList) = 0

\* The indicator dot of one entry of the list.
Indicator(agent) ==
    IF agent.status = "Alert" THEN "bg-red-500"
    ELSE IF agent.status = "Processing" THEN "bg-yellow-500"
    ELSE "bg-green-500"

\* {agent.status === 'Processing' && <progress bar>}.
ProgressBar(agent) == agent.status = "Processing"

(* ---------------------------------------------------------------- README *)

\* "11 Specialized Agents: Vitals, Exercise, Sleep, Nutrition, Counselor,
\* Mood, Social, Scheduler, Alert, Digital Twin, and Orchestrator."
ReadmeAgents ==
    {"Vitals", "Exercise", "Sleep", "Nutrition", "Counselor", "Mood",
     "Social", "Scheduler", "Alert", "Digital Twin", "Orchestrator"}

(* ----------------------------------------- MindMap3D: the connection lines *)

\* A point of the map: at distance `radius` from the centre (cx, cy), in
\* the direction degrees * pi / 180 + turn, turn being in 1/100000 rad.
Point(radius, degrees, turn) ==
    [radius |-> radius, degrees |-> degrees, turn |-> turn]
CenterPoint == Point(0, 0, 0)

\* The line from the centre to the i-th agent of ring 1 (i from 0):
\* speed = 0.3 + i * 0.07, angle = agent.angle * pi / 180 + time * speed.
Ring1Line(i) ==
    LET agent == RingAgents(1)[i + 1]
        speed == 30 + i * 7
    IN  [key |-> agent.name,
         from |-> CenterPoint,
         to |-> Point(RingRadius(1), agent.angle, time * speed)]

\* A hub index that divides the ring-2 index by 2.4.
HubIndexByDivision(i) == (i * 10) \div 24

\* hIdx = Math.floor(i * (ring1.length / ring2.length)). The product is
\* taken in floating point; for the lengths and indices of the table it is
\* 0 or at least 1/7 away from every integer, so its floor is the floor of
\* the exact quotient.
HubIndex(i) == (i * Len(RingAgents(1))) \div Len(RingAgents(2))

\* ring1[hIdx] || ring1[0]: the first agent of ring 1 when ring1[hIdx] is
\* undefined.
HubFallback(i) == HubIndex(i) \notin 0..(Len(RingAgents(1)) - 1)
HubAgent(i) ==
    IF HubFallback(i) THEN RingAgents(1)[1] ELSE RingAgents(1)[HubIndex(i) + 1]

\* The line from its hub to the i-th agent of ring 2 (i from 0):
\* speed2 = 0.18 + i * 0.04 for the agent's end, hubSpeed = 0.3 + hIdx * 0.07
\* for the hub's end.
Ring2Line(i) ==
    LET agent == RingAgents(2)[i + 1]
        speed2 == 18 + i * 4
        hubSpeed == 30 + HubIndex(i) * 7
    IN  [key |-> agent.name,
         hub |-> HubAgent(i).name,
         from |-> Point(RingRadius(1), HubAgent(i).angle, time * hubSpeed),
         to |-> Point(RingRadius(2), agent.angle, time * speed2)]

(* --------------------------------------------------------- specifications *)

Init ==
    /\ vitals = DefaultVitals
    /\ agentStates = EmptyMap
    /\ mounted = FALSE
    /\ mounts = 0
    /\ sockets = <<>>
    /\ event = NoEvent
    /\ vitalsCarried = Undefined
    /\ statesCarried = Undefined
    /\ vitalsTruthy = Undefined
    /\ statesTruthy = Undefined
    /\ thrown = FALSE
    /\ messages = <<>>
    /\ input = ""
    /\ requests = <<>>
    /\ now = 1
    /\ sends = 0
    /\ origin = <<>>
    /\ completed = <<>>
    /\ time = 0
    /\ timers = <<>>
    /\ hoveredAgent = Null
    /\ activeAgent = Null
    /\ lastHover = Null

NextSocket ==
    \/ DashboardMount
    \/ DashboardUnmount
    \/ DashboardRender
    \/ \E i \in 1..Len(sockets) : SocketOpen(i)
    \/ \E i \in 1..Len(sockets) : SocketClosed(i)
    \/ \E i \in 1..Len(sockets) : \E ev \in Payloads : SocketMessage(i, ev)

SpecSocket == Init /\ [][NextSocket]_vars

\* The state once the Dashboard, and the ChatPanel in it, has mounted.
InitMounted ==
    /\ vitals = DefaultVitals
    /\ agentStates = EmptyMap
    /\ mounted = TRUE
    /\ mounts = 1
    /\ sockets = <<NewWebSocket(1)>>
    /\ event = NoEvent
    /\ vitalsCarried = Undefined
    /\ statesCarried = Undefined
    /\ vitalsTruthy = Undefined
    /\ statesTruthy = Undefined
    /\ thrown = FALSE
    /\ messages = <<>>
    /\ input = ""
    /\ requests = <<>>
    /\ now = 1
    /\ sends = 0
    /\ origin = <<>>
    /\ completed = <<>>
    /\ time = 0
    /\ timers = <<NewInterval(1)>>
    /\ hoveredAgent = Null
    /\ activeAgent = Null
    /\ lastHover = Null

NextChat ==
    \/ \E s \in Inputs : SetInput(s)
    \/ HandleSendBlank
    \/ HandleSend
    \/ \E i \in 1..Len(requests) : FetchRejected(i)
    \/ \E i \in 1..Len(requests) : FetchResolved(i)
    \/ \E i \in 1..Len(requests) : \E body \in Bodies : JsonSettled(i, body)
    \/ Tick

SpecChat == InitMounted /\ [][NextChat]_vars

NextMindMap ==
    \/ DashboardMount
    \/ DashboardUnmount
    \/ \E i \in 1..Len(timers) : TimerTick(i)
    \/ \E k \in 1..Len(OrbitingAgents) : MouseEnter(k)
    \/ \E k \in 1..Len(OrbitingAgents) : MouseLeave(k)

SpecMindMap == Init /\ [][NextMindMap]_vars

\* The nodes the pointer is moved over while the feed runs: an agent the
\* feed reports as active, one it reports as processing, one it reports as
\* alerting, and one it never reports.
HoverSample == {k \in 1..Len(OrbitingAgents) :
                  OrbitingAgents[k].name \in {"Vitals", "Sleep", "Alert", "Knowledge"}}

\* One mount of the Dashboard: the feed, and the pointer over the mind map.
NextDisplay ==
    \/ DashboardMount
    \/ \E i \in 1..Len(sockets) : SocketOpen(i)
    \/ \E i \in 1..Len(sockets) : \E ev \in Payloads : SocketMessage(i, ev)
    \/ \E k \in HoverSample : MouseEnter(k)
    \/ \E k \in HoverSample : MouseLeave(k)

SpecDisplay == Init /\ [][NextDisplay]_vars

\* The messages of the run in which feed, chat and pointer act side by
\* side: one that is not JSON, JSON null, one that sets both cells, one
\* that sets the map only.
PayloadSample ==
    { NotJson,
      JsonText(Null),
      JsonText(JsObject([vitals |-> VitalsA, agent_states |-> StatesA])),
      JsonText(JsObject([agent_states |-> StatesB])) }

\* The response bodies of that run: one that is not JSON, one with a reply.
BodySample ==
    { NotJson,
      JsonText(JsObject([response |-> JsString("Vitals nominal")])) }

\* One mount of the Dashboard with its three children at work: the feed,
\* the chat and the pointer over the mind map.
NextCells ==
    \/ DashboardMount
    \/ \E i \in 1..Len(sockets) : SocketOpen(i)
    \/ \E i \in 1..Len(sockets) : \E ev \in PayloadSample : SocketMessage(i, ev)
    \/ SetInput("hi")
    \/ HandleSend
    \/ \E i \in 1..Len(requests) : FetchRejected(i)
    \/ \E i \in 1..Len(requests) : FetchResolved(i)
    \/ \E i \in 1..Len(requests) : \E body \in BodySample : JsonSettled(i, body)
    \/ \E k \in HoverSample : MouseEnter(k)
    \/ \E k \in HoverSample : MouseLeave(k)

SpecCells == Init /\ [][NextCells]_vars

Next == NextSocket \/ NextChat \/ NextMindMap \/ NextDisplay \/ NextCells

Spec == Init /\ [][Next]_vars

(* ------------------------------------------------ properties: the socket *)

\* A step of SpecSocket that leaves the sockets alone and changes something
\* is the handling of the message event'.
MessageStep == UNCHANGED <<socketVars, chatVars>>

SocketsOfMount(k) == {i \in 1..Len(sockets) : sockets[i].mount = k}

\* C1: every mount of the Dashboard constructs exactly one WebSocket, at
\* mount time: the sockets constructed are as many as the mounts, one per
\* mount, and the only step that constructs one is the step that mounts the
\* Dashboard (no reconnect after a close or failure, none on a re-render).
C1_OneSocketPerMount ==
    /\ [](/\ Len(sockets) = mounts
          /\ \A k \in 1..mounts : Cardinality(SocketsOfMount(k)) = 1)
    /\ [][Len(sockets') # Len(sockets)
             => /\ ~mounted /\ mounted'
                /\ sockets' = Append(sockets, NewWebSocket(mounts'))]_vars

\* C1 witness: the second mount's connection has closed while the Dashboard
\* is still mounted, and there are still two sockets only.
C1_Witness ==
    /\ mounted /\ mounts = 2 /\ Len(sockets) = 2
    /\ sockets[2].readyState = "CLOSED" /\ ~sockets[2].closeCalled

\* C2: an unmounted Dashboard has had close() called on the socket of
\* every mount, and none of its sockets is CONNECTING or OPEN; while it is
\* mounted this holds of the sockets of the earlier mounts.
C2_ClosedOnUnmount ==
    \A i \in 1..Len(sockets) :
        (~mounted \/ i < Len(sockets))
            => /\ sockets[i].closeCalled
               /\ sockets[i].readyState \in {"CLOSING", "CLOSED"}

\* C2 witness: the Dashboard unmounted while its socket was open and
\* delivering messages, and the socket is closing.
C2_Witness ==
    /\ ~mounted /\ Len(sockets) = 1
    /\ sockets[1].readyState = "CLOSING"
    /\ event # NoEvent

\* C3 as stated: a message that has the vitals key and not the agent_states
\* key sets the vitals cell to the field and leaves the map; the other way
\* round for agent_states; a message with neither key leaves both.
C3_ByPresence ==
    [][MessageStep =>
        LET v == HasField(event', "vitals")
            s == HasField(event', "agent_states")
        IN  /\ (v /\ ~s) => /\ vitals' = Field(event', "vitals")
                            /\ agentStates' = agentStates
            /\ (s /\ ~v) => /\ agentStates' = Field(event', "agent_states")
                            /\ vitals' = vitals
            /\ (~v /\ ~s) => UNCHANGED cellVars]_vars

\* C3, amended: a message whose vitals field is truthy and that has no
\* agent_states key sets the vitals cell to the field and leaves the map
\* unchanged; a message whose agent_states field is truthy and that has no
\* vitals key sets the map and leaves vitals unchanged; a message with
\* neither key, or with falsy fields only, leaves both cells unchanged.
C3_ByTruthiness ==
    [][MessageStep =>
        LET v == Truthy(Field(event', "vitals"))
            s == Truthy(Field(event', "agent_states"))
        IN  /\ (v /\ ~HasField(event', "agent_states"))
                => /\ vitals' = Field(event', "vitals")
                   /\ agentStates' = agentStates
            /\ (s /\ ~HasField(event', "vitals"))
                => /\ agentStates' = Field(event', "agent_states")
                   /\ vitals' = vitals
            /\ (~v /\ ~s) => UNCHANGED cellVars]_vars

\* C3 witness: a vitals-only message has been handled after the map had
\* been set, and the map is still what it was set to.
C3_Witness ==
    /\ event = JsonText(JsObject([vitals |-> VitalsA]))
    /\ vitals = VitalsA
    /\ agentStates = StatesA

\* C4 as stated: a message whose agent_states field is a map S leaves the
\* map equal to S, and a message whose vitals field is V, whatever V is,
\* leaves the vitals cell equal to V.
C4_WholesaleAnyValue ==
    [][MessageStep =>
        /\ Field(event', "agent_states").type = "object"
               => agentStates' = Field(event', "agent_states")
        /\ HasField(event', "vitals")
               => vitals' = Field(event', "vitals")]_vars

\* C4, amended: each update replaces the cell wholesale: a message whose
\* agent_states field is a map S leaves the map equal to S, with no key
\* of the earlier map kept, and a message whose vitals field is a truthy
\* V leaves the vitals cell equal to V.
C4_Wholesale ==
    [][MessageStep =>
        /\ Field(event', "agent_states").type = "object"
               => agentStates' = Field(event', "agent_states")
        /\ Truthy(Field(event', "vitals"))
               => vitals' = Field(event', "vitals")]_vars

\* C4 witness: a message that held both fields has been handled, and the
\* cells are its VitalsB and its StatesB.
C4_Witness ==
    /\ event = JsonText(JsObject([vitals |-> VitalsB, agent_states |-> StatesB]))
    /\ agentStates = StatesB
    /\ vitals = VitalsB

\* C5 as stated: the vitals cell is the default record if no message has
\* had the vitals key and otherwise the vitals field of the last message
\* that had it; the map is the empty map or the agent_states field of the
\* last message that had that key.
C5_LastCarried ==
    /\ vitals = IF vitalsCarried = Undefined THEN DefaultVitals ELSE vitalsCarried
    /\ agentStates = IF statesCarried = Undefined THEN EmptyMap ELSE statesCarried

\* C5, amended: the vitals cell is the default record (72, 88, 25, 21, 0.04,
\* 22) if no message has held a truthy vitals field and otherwise the
\* vitals field of the last message that held a truthy one; the map is the
\* empty map if no message has held a truthy agent_states and otherwise the
\* agent_states of the last message that held a truthy one.
C5_LastTruthy ==
    /\ vitals = IF vitalsTruthy = Undefined THEN DefaultVitals ELSE vitalsTruthy
    /\ agentStates = IF statesTruthy = Undefined THEN EmptyMap ELSE statesTruthy
    /\ DefaultVitals.obj.heart_rate = 72 /\ DefaultVitals.obj.sleep_quality = 88
    /\ DefaultVitals.obj.stress_level = 25 /\ DefaultVitals.obj.o2_level = 21
    /\ DefaultVitals.obj.co2_level = 4 /\ DefaultVitals.obj.temperature = 22

\* C5 witness: the last message with a vitals key held null, the cell holds
\* the vitals of an earlier message, and no message has set the map: it is
\* still empty, on the second mount.
C5_Witness ==
    /\ vitalsCarried = Null /\ vitals = VitalsB
    /\ statesCarried = JsNumber(0) /\ agentStates = EmptyMap
    /\ mounts = 2

(* -------------------------------------------------- properties: the chat *)

\* The transcript places of the user message and of the replies of send i.
UserOf(i) == {j \in 1..Len(origin) : origin[j] = [send |-> i, by |-> "send"]}
RepliesTo(i) == {j \in 1..Len(origin) : origin[j].send = i /\ origin[j].by # "send"}

Pending(i) == requests[i].phase \in {"fetch", "json"}

IsFallback(msg) ==
    /\ msg.role = "ai"
    /\ msg.text = JsString(
         "I'm having trouble connecting to the orchestration core. Please check my status.")

\* C6: a send whose fetch has failed has exactly one reply in the
\* transcript, the 'ai' message with the fixed fallback text, and its own
\* user message, with the text that was sent, is still there; the step in
\* which the fetch fails appends that one message and nothing else.
C6_FailedFetchFallback ==
    /\ [](\A i \in 1..Len(requests) :
            requests[i].phase = "failed"
                => /\ Cardinality(RepliesTo(i)) = 1
                   /\ \A j \in RepliesTo(i) : IsFallback(messages[j])
                   /\ Cardinality(UserOf(i)) = 1
                   /\ \A j \in UserOf(i) :
                        /\ messages[j].role = "user"
                        /\ messages[j].text = JsString(requests[i].currentInput))
    /\ [][\A i \in 1..Len(requests) :
            (requests[i].phase # "failed" /\ requests'[i].phase = "failed")
                => /\ Len(messages') = Len(messages) + 1
                   /\ SubSeq(messages', 1, Len(messages)) = messages
                   /\ IsFallback(messages'[Len(messages')])]_vars

\* C6 witness: the first send's fetch has failed while the second send's
\* request is still pending.
C6_Witness ==
    /\ Len(requests) = 2
    /\ requests[1].phase = "failed"
    /\ Pending(2)
    /\ Len(messages) = 3

\* C7: the requests issued are as many as the non-blank sends, at all
\* times and whatever the requests' outcomes: a step that issues a request
\* is a send with non-blank input and issues one request.
C7_OneRequestPerSend ==
    /\ [](Len(requests) = sends)
    /\ [][Len(requests') # Len(requests)
            => /\ Trim(input) # ""
               /\ sends' = sends + 1
               /\ Len(requests') = Len(requests) + 1
               /\ SubSeq(requests', 1, Len(requests)) = requests]_vars

\* C7 witness: two sends, one failed at fetch and one with a body that is
\* not JSON, and two requests in all.
C7_Witness ==
    /\ sends = 2 /\ Len(requests) = 2
    /\ requests[1].phase = "failed"
    /\ requests[2].phase = "done" /\ requests[2].body = NotJson

\* A response is malformed when its body is not JSON or is JSON without a
\* string `response` field.
Malformed(body) ==
    \/ ~body.wellFormed
    \/ GetProp(body.value, "response").type # "string"

\* C8: a send whose response is malformed ends with the same transcript
\* entry as a send whose request failed: one reply, the fallback message.
C8_MalformedIsFallback ==
    \A i \in 1..Len(requests) :
        (requests[i].phase = "done" /\ Malformed(requests[i].body))
            => /\ Cardinality(RepliesTo(i)) = 1
               /\ \A j \in RepliesTo(i) : IsFallback(messages[j])

\* C9: a send whose response body is a JSON object with a `response` field
\* r has exactly one reply, the 'ai' message with text r, appended by the
\* try branch and not by the catch branch; the step in which the body
\* arrives appends that one message.
C9_ReplyIsResponse ==
    /\ [](\A i \in 1..Len(requests) :
            (requests[i].phase = "done" /\ HasField(requests[i].body, "response"))
                => /\ Cardinality(RepliesTo(i)) = 1
                   /\ \A j \in RepliesTo(i) :
                        /\ messages[j].role = "ai"
                        /\ messages[j].text = requests[i].body.value.obj.response
                        /\ origin[j].by = "try")
    /\ [][\A i \in 1..Len(requests) :
            (requests[i].phase = "json" /\ requests'[i].phase = "done"
               /\ HasField(requests'[i].body, "response"))
                => /\ Len(messages') = Len(messages) + 1
                   /\ SubSeq(messages', 1, Len(messages)) = messages
                   /\ messages'[Len(messages')].text
                        = requests'[i].body.value.obj.response]_vars

\* C9 witness: the transcript ends with the reply "Vitals nominal" to the
\* one send there has been.
C9_Witness ==
    /\ Len(requests) = 1 /\ requests[1].phase = "done"
    /\ requests[1].body = JsonText(JsObject([response |-> JsString("Vitals nominal")]))
    /\ Len(messages) = 2
    /\ messages[2].text = JsString("Vitals nominal")

\* The sends whose replies the transcript holds, in transcript order.
ReplyOrder ==
    LET replies == SelectSeq(origin, LAMBDA o : o.by # "send")
    IN  [k \in 1..Len(replies) |-> replies[k].send]

\* C10: sends are neither serialised nor cancelled: a non-blank input can
\* be sent whatever requests are pending; a pending request stays, and can
\* make its next step whatever the other requests do, until it settles; and
\* the replies stand in the transcript in the order the requests settled.
C10_Overlap ==
    /\ []((mounted /\ Trim(input) # "" /\ sends < MaxSends) => ENABLED HandleSend)
    /\ [](\A i \in 1..Len(requests) :
            /\ requests[i].phase = "fetch"
                 => ENABLED FetchRejected(i) /\ ENABLED FetchResolved(i)
            /\ requests[i].phase = "json"
                 => \A body \in Bodies : ENABLED JsonSettled(i, body))
    /\ [](ReplyOrder = completed)
    /\ [][/\ Len(requests') >= Len(requests)
          /\ \A i \in 1..Len(requests) :
                \/ requests'[i] = requests[i]
                \/ /\ Pending(i)
                   /\ requests'[i].currentInput = requests[i].currentInput
                   /\ requests'[i].url = requests[i].url
                   /\ <<requests[i].phase, requests'[i].phase>> \in
                        {<<"fetch", "json">>, <<"fetch", "failed">>,
                         <<"json", "done">>}]_vars

\* C10 witness: the second send was issued while the first was pending,
\* both have settled, and the reply to the second stands before the reply
\* to the first.
C10_Witness ==
    /\ Len(requests) = 2 /\ ~Pending(1) /\ ~Pending(2)
    /\ completed = <<2, 1>>
    /\ Len(messages) = 4
    /\ origin[1].send = 1 /\ origin[2].send = 2
    /\ origin[3].send = 2 /\ origin[4].send = 1

(* ---------------------------------------------- properties: the mind map *)

\* The timer of the MindMap3D that is mounted now.
CurrentTimer == timers[Len(timers)]

\* C11: the clock is 0 when a MindMap3D mounts, whatever it was in an
\* earlier mount; every tick of the mounted component's timer adds exactly
\* the step 0.008 to it; and during a mount nothing else changes it, so the
\* clock is the step times the number of ticks of this mount and it never
\* goes down or back to 0.
C11_Clock ==
    /\ [](mounted => time = TimeStep * CurrentTimer.fired)
    /\ [][/\ (~mounted /\ mounted') => time' = 0
          /\ (mounted /\ mounted') =>
                /\ time' >= time
                /\ time' # time =>
                     /\ time' = time + TimeStep
                     /\ CurrentTimer'.fired = CurrentTimer.fired + 1]_vars

\* C11 witness: the clock of the second mount has restarted from 0 after the
\* first mount's clock had run, and has been advanced by two ticks.
C11_Witness ==
    /\ mounted /\ mounts = 2
    /\ timers[1].fired > 0
    /\ CurrentTimer.fired = 2
    /\ time = 2 * TimeStep

(* ------------------------------------------ properties: the activity list *)

\* The keys of the agent-status map.
AgentKeys == DOMAIN agentStates.obj

NodesOfRing(ring) ==
    SelectSeq(AgentNodes,
              LAMBDA n : \E k \in 1..Len(AGENTS) :
                            AGENTS[k].name = n.name /\ AGENTS[k].ring = ring)

\* The table's angle of the agent of a name.
TableAngle(name) ==
    (CHOOSE a \in {AGENTS[k] : k \in 1..Len(AGENTS)} : a.name = name).angle

\* C13: every rendered agent node is on its ring: the five agents of ring 1
\* at distance 110 from the centre and the seven of ring 2 at distance 210,
\* in the direction (table angle in radians) + clock * speed, the speed of
\* the k-th agent of a ring (k from 0) being 0.3 + 0.07 k on ring 1 and
\* 0.18 + 0.04 k on ring 2. The Orchestrator, of ring 0, is no orbiting
\* node; the centre is the astronaut node, which does not move.
C13_OnRing ==
    /\ Len(NodesOfRing(1)) = 5
    /\ Len(NodesOfRing(2)) = 7
    /\ Len(AgentNodes) = 12
    /\ \A k \in 0..4 :
          LET n == NodesOfRing(1)[k + 1]
          IN  /\ n.radius = 110
              /\ n.degrees = TableAngle(n.name)
              /\ n.turn = time * (30 + 7 * k)
    /\ \A k \in 0..6 :
          LET n == NodesOfRing(2)[k + 1]
          IN  /\ n.radius = 210
              /\ n.degrees = TableAngle(n.name)
              /\ n.turn = time * (18 + 4 * k)
    /\ \A i \in 1..Len(AgentNodes) : AgentNodes[i].name # "Orchestrator"
    /\ CenterNode = [label |-> "ASTRONAUT", radius |-> 0]

\* C13 witness: two ticks into a mount, the last agent of each ring has
\* turned by the clock times its own speed.
C13_Witness ==
    /\ mounted /\ time = 2 * TimeStep
    /\ NodesOfRing(1)[5].name = "Nutrition"
    /\ NodesOfRing(1)[5].turn = 16 * 58
    /\ NodesOfRing(2)[7].name = "Knowledge"
    /\ NodesOfRing(2)[7].turn = 16 * 42

\* The names of the agents of the mind map's table.
TableAgents == {AGENTS[k].name : k \in 1..Len(AGENTS)}

\* C14: a mounted mind map shows the mesh of the README: the agents of its
\* table are exactly the eleven agents the README names, and the number of
\* nodes it reports as active is 11.
C14_ReadmeMesh ==
    mounted =>
        /\ TableAgents = ReadmeAgents
        /\ Cardinality(ReadmeAgents) = 11
        /\ NodesActive = 11

(* ------------------------------------------ properties: the status display *)

\* The rendered node of the agent of a name.
NodeOf(name) ==
    CHOOSE n \in {AgentNodes[i] : i \in 1..Len(AgentNodes)} : n.name = name

\* C15: what is displayed for an agent depends on its status only. In the
\* activity list the indicator is red for Alert, yellow for Processing and
\* green for anything else, and the progress bar is there exactly for
\* Processing. In the mind map an agent has a pulse ring exactly when its
\* status is Processing or Alert; an agent without an entry in the map has
\* no pulse ring and, hovered or not, no status line in its tooltip.
C15_ByStatus ==
    /\ \A i \in 1..Len(agentsList) :
          LET e == agentsList[i]
          IN  /\ Indicator(e) =
                    (CASE e.status = "Alert" -> "bg-red-500"
                       [] e.status = "Processing" -> "bg-yellow-500"
                       [] OTHER -> "bg-green-500")
              /\ ProgressBar(e) <=> e.status = "Processing"
    /\ \A i \in 1..Len(AgentNodes) :
          LET n == AgentNodes[i]
          IN  /\ n.name \in AgentKeys =>
                    (n.pulseRing <=>
                        agentStates.obj[n.name].status \in {"Processing", "Alert"})
              /\ n.name \notin AgentKeys => ~n.pulseRing /\ ~n.statusLine

\* C15 witness: the feed reports Vitals active and Sleep processing and
\* nothing about Knowledge; the pointer is over Knowledge, whose tooltip is
\* shown without a status line; Sleep has a pulse ring and Vitals has none.
C15_Witness ==
    /\ agentStates = StatesA
    /\ hoveredAgent = JsString("Knowledge")
    /\ NodeOf("Knowledge").tooltip /\ ~NodeOf("Knowledge").statusLine
    /\ NodeOf("Sleep").pulseRing
    /\ ~NodeOf("Vitals").pulseRing
    /\ ProgressBar(agentsList[1]) # ProgressBar(agentsList[2])

(* ------------------------------------------------- properties: the hover *)

\* C16: the shared active agent follows the hover. After any sequence of
\* events, while a mind map is shown, the active agent equals the hovered
\* agent of that mind map, and it is null or the name of the most recent
\* mouse-enter that no mouse-leave has followed.
C16_ActiveFollowsHover ==
    mounted =>
        /\ activeAgent = hoveredAgent
        /\ activeAgent = lastHover

(* ------------------------------------------------- properties: the timer *)

\* The timers that have been set and not cleared.
RunningTimers == {i \in 1..Len(timers) : timers[i].active}

\* C17: the animation timer is stopped when the mind map unmounts. A
\* mounted mind map has exactly one running timer, its own; an unmounted
\* one has none, so that no timer can fire and the clock does not change
\* until the next mount; and a timer that has been cleared never fires again.
C17_TimerCleared ==
    /\ [](RunningTimers = IF mounted THEN {Len(timers)} ELSE {})
    /\ [](mounted => CurrentTimer.mount = mounts)
    /\ [](\A i \in 1..Len(timers) : ~timers[i].active => ~ENABLED TimerTick(i))
    /\ [][/\ (~mounted /\ ~mounted') => time' = time /\ timers' = timers
          /\ \A i \in 1..Len(timers) :
                ~timers[i].active => timers'[i] = timers[i]]_vars

\* C17 witness: the first mount's timer fired, was cleared at the unmount
\* and has not fired since, while the second mount's timer runs.
C17_Witness ==
    /\ mounted /\ mounts = 2
    /\ timers[1].fired = 1 /\ ~timers[1].active
    /\ timers[2].fired = 2 /\ timers[2].active
    /\ RunningTimers = {2}

(* -------------------------------------------- properties: the transcript *)

\* The places of the transcript that hold a message of a role.
OfRole(role) == {j \in 1..Len(messages) : messages[j].role = role}

\* C18: the transcript only grows at its end: the transcript before a step
\* is a prefix of the transcript after it. The user messages are the
\* messages the sends appended, they stand in the order of the sends with
\* the text that was sent, and the reply to a send stands after that
\* send's user message.
C18_AppendOnly ==
    /\ [][/\ Len(messages') >= Len(messages)
          /\ SubSeq(messages', 1, Len(messages)) = messages]_vars
    /\ [](/\ Len(origin) = Len(messages)
          /\ OfRole("user") = {j \in 1..Len(origin) : origin[j].by = "send"}
          /\ \A j \in OfRole("user") :
                messages[j].text = JsString(requests[origin[j].send].currentInput)
          /\ \A j, k \in OfRole("user") :
                j < k <=> origin[j].send < origin[k].send)
    /\ [](\A i \in 1..Len(requests) :
             \A u \in UserOf(i) : \A r \in RepliesTo(i) : u < r)

\* C18 witness: "hi" was sent and answered, then " yo " was sent and is
\* still pending: user, reply, user, in this order.
C18_Witness ==
    /\ Len(messages) = 3
    /\ messages[1].role = "user" /\ messages[1].text = JsString("hi")
    /\ messages[2].role = "ai" /\ origin[2].send = 1
    /\ messages[3].role = "user" /\ messages[3].text = JsString(" yo ")
    /\ Pending(2)

\* C19: sending a blank input does nothing. While the input is empty or
\* blanks only, handleSend is its early return: it leaves the transcript
\* and the input as they are and issues no request; no step taken from
\* such a state adds a send, a request or a user message.
C19_BlankSendNoOp ==
    /\ []((mounted /\ Trim(input) = "") =>
             /\ ENABLED HandleSendBlank
             /\ ~ENABLED HandleSend)
    /\ [][HandleSendBlank => UNCHANGED <<messages, input, requests>>]_vars
    /\ [][Trim(input) = "" =>
             /\ sends' = sends
             /\ Len(requests') = Len(requests)
             /\ Cardinality(OfRole("user")') = Cardinality(OfRole("user"))]_vars

\* C19 witness: after one send the user has typed blanks only; a send is
\* still allowed by the bound, and only the early return is enabled.
C19_Witness ==
    /\ mounted /\ input = "  "
    /\ sends = 1 /\ sends < MaxSends
    /\ Len(requests) = 1
    /\ ENABLED HandleSendBlank

\* C20: every send whose request settles is answered exactly once, by a
\* message of role 'ai'; a send whose request has not settled has no reply.
\* Every send has exactly one user message, so once all requests have
\* settled the transcript has one 'user' and one 'ai' message per send,
\* 2N messages for N sends.
C20_AnsweredOnce ==
    /\ Len(requests) = sends
    /\ \A i \in 1..Len(requests) :
          /\ Cardinality(UserOf(i)) = 1
          /\ Pending(i) => RepliesTo(i) = {}
          /\ ~Pending(i) =>
                /\ Cardinality(RepliesTo(i)) = 1
                /\ \A r \in RepliesTo(i) : messages[r].role = "ai"
    /\ (\A i \in 1..Len(requests) : ~Pending(i)) =>
          /\ Len(messages) = 2 * sends
          /\ Cardinality(OfRole("user")) = sends
          /\ Cardinality(OfRole("ai")) = sends

\* C20 witness: two sends, the first ended in the catch branch and the
\* second in the try branch, in this order; four messages.
C20_Witness ==
    /\ sends = 2
    /\ requests[1].phase = "failed" /\ requests[2].phase = "done"
    /\ completed = <<1, 2>>
    /\ Len(messages) = 4
    /\ Cardinality(OfRole("ai")) = 2

(* ------------------------------------------- properties: the sent text *)

\* The user message of the i-th send.
UserMessageOf(i) == messages[CHOOSE j \in UserOf(i) : TRUE]

\* C21: a non-blank send appends the user message, clears the input field
\* and issues the request in one step, and the user message and the
\* request both carry the text the field held when the send began. From
\* then on neither of them changes, whatever is typed into the field while
\* the request is pending or after it.
C21_SentTextCaptured ==
    /\ [][sends' # sends =>
             /\ sends' = sends + 1
             /\ Trim(input) # ""
             /\ input' = ""
             /\ Len(messages') = Len(messages) + 1
             /\ messages'[Len(messages')].role = "user"
             /\ messages'[Len(messages')].text = JsString(input)
             /\ Len(requests') = Len(requests) + 1
             /\ requests'[Len(requests')].currentInput = input
             /\ requests'[Len(requests')].url = QueryUrl(input)
             /\ requests'[Len(requests')].phase = "fetch"]_vars
    /\ [][\A i \in 1..Len(requests) :
             /\ requests'[i].currentInput = requests[i].currentInput
             /\ requests'[i].url = requests[i].url
             /\ UserMessageOf(i)' = UserMessageOf(i)]_vars
    /\ [](\A i \in 1..Len(requests) :
             /\ UserMessageOf(i).text = JsString(requests[i].currentInput)
             /\ requests[i].url = QueryUrl(requests[i].currentInput)
             /\ Trim(requests[i].currentInput) # "")

\* C21 witness: " yo " was sent, and while its request is pending the user
\* has typed "hi" into the cleared field; the request and the user message
\* still carry " yo ", blanks included.
C21_Witness ==
    /\ sends = 1 /\ Pending(1)
    /\ input = "hi"
    /\ requests[1].currentInput = " yo "
    /\ requests[1].url = "http://localhost:8000/query/%20yo%20"
    /\ UserMessageOf(1).text = JsString(" yo ")

(* ---------------------------------------- properties: truthiness of fields *)

\* C22: the handler tests the two fields for truthiness, not for presence.
\* A message whose agent_states is the empty map, which is truthy, replaces
\* the agent-status map by the empty map, and the activity list shows
\* 'No Data Stream' again; a message whose vitals is null, 0, false or the
\* empty string leaves the vitals cell as it was, and one whose
\* agent_states is one of these leaves the map as it was.
C22_TruthinessNotPresence ==
    /\ [][MessageStep =>
             /\ Field(event', "agent_states") = EmptyMap
                   => agentStates' = EmptyMap /\ NoDataStream'
             /\ Field(event', "vitals") \in Falsy => vitals' = vitals
             /\ Field(event', "agent_states") \in Falsy
                   => agentStates' = agentStates]_vars
    /\ [](Truthy(EmptyMap) /\ \A f \in Falsy : ~Truthy(f))

\* C22 witness: the last message held a null vitals, which left the vitals
\* of an earlier message in place, and an empty agent_states, after which
\* the map is empty and the list shows the placeholder.
C22_Witness ==
    /\ event = JsonText(JsObject([vitals |-> Null, agent_states |-> EmptyMap]))
    /\ statesCarried = EmptyMap
    /\ vitalsCarried = Null
    /\ vitals = VitalsA
    /\ agentStates = EmptyMap
    /\ NoDataStream

(* --------------------------------------- properties: the cells' writers *)

\* A step in which the handler of some socket handles some message.
SocketMessageStep ==
    \E i \in 1..Len(sockets) : \E ev \in PayloadSample : SocketMessage(i, ev)

\* A step of a chat send: its synchronous part or one of its continuations.
ChatSendStep ==
    \/ HandleSend
    \/ \E i \in 1..Len(requests) :
          \/ FetchRejected(i)
          \/ FetchResolved(i)
          \/ \E body \in BodySample : JsonSettled(i, body)

\* C23: the shared cells have disjoint writers. No WebSocket message,
\* throwing or not, changes the transcript or the active agent; a message
\* on which the handler throws (not JSON, or JSON null) changes neither
\* vitals nor the agent-status map and leaves the socket as it is, so that
\* every later message is still delivered and applied as its fields say;
\* and no step of a chat send changes vitals, the map or the active agent.
C23_DisjointWriters ==
    /\ [][(SocketMessageStep \/ event' # event \/ thrown' # thrown
             \/ vitals' # vitals \/ agentStates' # agentStates)
            => /\ messages' = messages
               /\ activeAgent' = activeAgent]_vars
    /\ [][(SocketMessageStep /\ Throws(event'))
            => UNCHANGED <<vitals, agentStates, sockets>>]_vars
    /\ [](thrown =>
            \A i \in 1..Len(sockets) :
               sockets[i].readyState = "OPEN"
                  => \A ev \in PayloadSample : ENABLED SocketMessage(i, ev))
    /\ [][(thrown /\ SocketMessageStep /\ ~Throws(event'))
            => /\ vitals' = IF Truthy(Field(event', "vitals"))
                            THEN Field(event', "vitals") ELSE vitals
               /\ agentStates' = IF Truthy(Field(event', "agent_states"))
                                 THEN Field(event', "agent_states")
                                 ELSE agentStates]_vars
    /\ [][(ChatSendStep \/ messages' # messages \/ requests' # requests
             \/ sends' # sends)
            => UNCHANGED <<vitals, agentStates, activeAgent>>]_vars

\* C23 witness: the handler threw on an earlier message and has since
\* applied a message that set both cells; meanwhile a send was answered
\* and the pointer is over the Vitals node.
C23_Witness ==
    /\ thrown
    /\ event = JsonText(JsObject([vitals |-> VitalsA, agent_states |-> StatesA]))
    /\ vitals = VitalsA /\ agentStates = StatesA
    /\ sends = 1 /\ Len(messages) = 2
    /\ activeAgent = JsString("Vitals")

(* ---------------------------------------- properties: the connection lines *)

\* Where the node of the agent of a name is rendered.
NodePoint(name) ==
    Point(NodeOf(name).radius, NodeOf(name).degrees, NodeOf(name).turn)

\* C24: every connection line is anchored to nodes. For the ring-2 index i
\* in 0..6 the hub index is floor(i * 5 / 7), which lies in 0..4, so the
\* hub is the ring-1 agent of that index and never the fallback; every
\* ring-1 agent is the hub of some ring-2 agent. At every value of the
\* clock the hub end of a ring-2 line is where the hub's node is rendered
\* and its other end is where the ring-2 agent's node is rendered; a ring-1
\* line runs from the centre to where its agent's node is rendered.
C24_LinesAnchored ==
    /\ \A i \in 0..6 :
          /\ HubIndex(i) = (i * 5) \div 7
          /\ HubIndex(i) \in 0..4
          /\ ~HubFallback(i)
          /\ Ring2Line(i).hub = RingAgents(1)[HubIndex(i) + 1].name
          /\ Ring2Line(i).key = RingAgents(2)[i + 1].name
          /\ Ring2Line(i).from = NodePoint(Ring2Line(i).hub)
          /\ Ring2Line(i).to = NodePoint(Ring2Line(i).key)
    /\ \A h \in 0..4 : \E i \in 0..6 : HubIndex(i) = h
    /\ \A i \in 0..4 :
          /\ Ring1Line(i).key = RingAgents(1)[i + 1].name
          /\ Ring1Line(i).from = CenterPoint
          /\ Ring1Line(i).to = NodePoint(Ring1Line(i).key)

\* C24 witness: two ticks into a mount the line of Knowledge, the last
\* agent of ring 2, runs from the turned node of its hub Nutrition, the
\* last agent of ring 1, to the turned node of Knowledge.
C24_Witness ==
    /\ mounted /\ time = 2 * TimeStep
    /\ Ring2Line(6).key = "Knowledge" /\ Ring2Line(6).hub = "Nutrition"
    /\ Ring2Line(6).from = Point(110, 288, 16 * 58)
    /\ Ring2Line(6).to = Point(210, 306, 16 * 42)
    /\ Ring2Line(6).from = NodePoint("Nutrition")

====
